---- MODULE Spec2Model ----
(***************************************************************************)
(* DCache: a bounded LRU (package lru), a consistent-hash ring (package    *)
(* consistenthash) and the read-through Group with its single-flight       *)
(* coordinator (package dcache).                                           *)
(*                                                                         *)
(* The specifications of this module:                                      *)
(*   SpecLRU      one lru.Cache driven by Add / Get / RemoveOldest         *)
(*   SpecAdd      Cache.Add run one iteration of its eviction loop at a    *)
(*                time                                                     *)
(*   SpecRing     one consistenthash.Map driven by Add / Get               *)
(*   Spec         one Group served by concurrent goroutines calling Get,   *)
(*                with RegisterPeers racing against them                   *)
(*   SpecErr      the same Group asked for the empty key and for a key the *)
(*                loader rejects                                           *)
(*   SpecReg      goroutines calling Group.RegisterPeers concurrently      *)
(*   SpecPool     one HTTPPool driven by Set / PickPeer                    *)
(*   SpecRegistry the process-wide registry driven by NewGroup / GetGroup  *)
(*   SpecCluster  three nodes, each an HTTPPool and a Group, forwarding a  *)
(*                Get to the owner of its key                              *)
(* Strings are TLA+ strings (Len gives the byte length) except on the ring,*)
(* whose hash reads the digits of its argument: there a string is the      *)
(* sequence of its decimal digits.                                         *)
(***************************************************************************)
EXTENDS Integers, Sequences, FiniteSets, TLC

VARIABLES
    \* ---- package lru
    lru,        \* the Cache under test
    recency,    \* ghost: live keys, most recently accessed first
    touched,    \* ghost: the key the last operation accessed ("" if none)
    lastOp      \* ghost: the last operation and what it returned

lruVars == <<lru, recency, touched, lastOp>>

VARIABLES
    \* ---- package consistenthash
    ring,       \* the Map under test
    ringBefore, \* ghost: the Map as it was before the last Add
    addedBefore,\* ghost: the peers added before the last Add
    lastAdded,  \* ghost: the peers the last Add was given
    nAdds,      \* ghost: number of Add calls so far
    addLog,     \* ghost: every peer name given to Add so far, in order
    lookup      \* ghost: the last Get and what it returned

ringVars == <<ring, ringBefore, addedBefore, lastAdded, nAdds, addLog, lookup>>

VARIABLES
    \* ---- package dcache: one Group and the goroutines calling Get on it
    mainCache,  \* Group.mainCache: the mutex-guarded shell around the LRU
    peers,      \* Group.peers: the attached PeerPicker, or NoPicker
    sf,         \* Group.sf (its map m): key -> index in calls of the Call in flight
    calls,      \* every Call made so far (waiters hold them after removal)
    th,         \* per goroutine: where it is in Get and its locals
    hist,       \* ghost: per goroutine, the outcomes of its finished Gets
    loaderCalls,\* ghost: per key, invocations of the application loader
    peerCalls,  \* ghost: per key, calls of a peer's transport client
    regCalls    \* ghost: number of RegisterPeers calls

groupVars == <<mainCache, peers, sf, calls, th, hist, loaderCalls, peerCalls, regCalls>>

VARIABLES
    \* ---- Cache.Add step by step
    addCall     \* the Add in progress: where it is and its loop iterations

addVars == <<addCall>>

VARIABLES
    \* ---- goroutines calling Group.RegisterPeers
    reg,        \* per goroutine: where it is in RegisterPeers and its argument
    regLog      \* ghost: the finished RegisterPeers calls and how they ended

regVars == <<reg, regLog>>

VARIABLES
    \* ---- one HTTPPool
    pool,       \* the HTTPPool under test
    picked      \* ghost: the last PickPeer and what it returned

poolVars == <<pool, picked>>

VARIABLES
    \* ---- the registry of Groups
    groups,     \* var groups: name -> the Group registered under it
    created,    \* ghost: every Group NewGroup has constructed, in order
    got         \* ghost: the last GetGroup or NewGroup and what it returned

registryVars == <<groups, created, got>>

VARIABLES
    \* ---- a cluster of nodes
    cluster,    \* per node: its HTTPPool and the keys its Group has cached
    req         \* the client's Get: the chain of nodes serving it

clusterVars == <<cluster, req>>

extVars == <<addVars, regVars, poolVars, registryVars, clusterVars>>

vars == <<lruVars, ringVars, groupVars, extVars>>

(***************************************************************************)
(* package lru (src/unnamed/part_000)                                      *)
(***************************************************************************)

\* A missing value (the zero Value of a failed Get).
NoValue == [none |-> TRUE]

\* Value.Len() of a stored value: values are byte strings.
ValueLen(v) == Len(v)

\* The keys, the values and the byte caps the operations are driven with.
LruKeys == {"k1", "k2", "k3", "key3"}
LruValues == {"v1", "val3"}
LruMaxBytes == {0, 6, 10}

\* New(maxBytes, onEvicted). `evicted` lists the calls the OnEvicted callback
\* received during the current operation (onEvicted says whether one is set):
\* the key and value it was given, and what it could see of the cache when it
\* was called (mapped: the key is still in the map; nbyte: the byte counter).
CacheNew(maxBytes, onEvicted) ==
    [maxBytes |-> maxBytes, nbyte |-> 0, ll |-> <<>>, cache |-> {},
     onEvicted |-> onEvicted, evicted |-> <<>>]

\* c.cache[key]: the position in ll of the element the map holds for key.
Element(c, key) == CHOOSE i \in 1..Len(c.ll) : c.ll[i].key = key

\* list.MoveToFront: index 1 is the front.
MoveToFront(ll, i) ==
    <<ll[i]>> \o SubSeq(ll, 1, i - 1) \o SubSeq(ll, i + 1, Len(ll))

\* Mutant of Cache.Get: the hit is returned without promoting the entry.
CacheGetNoPromote(c, key) ==
    IF key \in c.cache
    THEN [c |-> c, value |-> c.ll[CHOOSE i \in 1..Len(c.ll) : c.ll[i].key = key].value,
          ok |-> TRUE]
    ELSE [c |-> c, value |-> [none |-> TRUE], ok |-> FALSE]

\* Cache.Get: [c |-> the cache afterwards, value, ok].
CacheGet(c, key) ==
    IF key \in c.cache
    THEN LET i == Element(c, key)
         IN [c |-> [c EXCEPT !.ll = MoveToFront(c.ll, i)],
             value |-> c.ll[i].value, ok |-> TRUE]
    ELSE [c |-> c, value |-> NoValue, ok |-> FALSE]

\* OnEvicted(key, value) called while the cache is c.
Callback(c, kv) ==
    [key |-> kv.key, value |-> kv.value, mapped |-> kv.key \in c.cache,
     nbyte |-> c.nbyte]

\* Mutant of Cache.RemoveOldest: the key's bytes are not given back.
CacheRemoveOldestKeepsKeyBytes(c) ==
    IF c.ll = <<>>
    THEN c
    ELSE LET kv == c.ll[Len(c.ll)]
             after == [c EXCEPT !.cache = @ \ {kv.key},
                                !.nbyte = @ - Len(kv.value),
                                !.ll = SubSeq(c.ll, 1, Len(c.ll) - 1)]
         IN IF c.onEvicted
            THEN [after EXCEPT !.evicted = Append(@, Callback(after, kv))]
            ELSE after

\* Mutant of Cache.RemoveOldest: the callback runs before the entry is removed.
CacheRemoveOldestCallbackFirst(c) ==
    IF c.ll = <<>>
    THEN c
    ELSE LET kv == c.ll[Len(c.ll)]
             after == [c EXCEPT !.cache = @ \ {kv.key},
                                !.nbyte = @ - Len(kv.key) - ValueLen(kv.value),
                                !.ll = SubSeq(c.ll, 1, Len(c.ll) - 1)]
         IN IF c.onEvicted
            THEN [after EXCEPT !.evicted = Append(@, Callback(c, kv))]
            ELSE after

\* Cache.RemoveOldest: the oldest entry leaves the map, the counter and the
\* list; then the callback, if one is set, is called with its key and value.
CacheRemoveOldest(c) ==
    IF c.ll = <<>>
    THEN c
    ELSE LET kv == c.ll[Len(c.ll)]
             after == [c EXCEPT !.cache = @ \ {kv.key},
                                !.nbyte = @ - Len(kv.key) - ValueLen(kv.value),
                                !.ll = SubSeq(c.ll, 1, Len(c.ll) - 1)]
         IN IF c.onEvicted
            THEN [after EXCEPT !.evicted = Append(@, Callback(after, kv))]
            ELSE after

\* The loop closing Cache.Add.
RECURSIVE EvictLoop(_)
EvictLoop(c) ==
    IF c.maxBytes # 0 /\ c.nbyte > c.maxBytes
    THEN EvictLoop(CacheRemoveOldest(c))
    ELSE c

\* The two branches of Cache.Add, before its eviction loop.
CacheInsert(c, key, value) ==
    IF key \in c.cache
    THEN LET i == Element(c, key)
             upd == [c.ll EXCEPT ![i].value = value]
         IN [c EXCEPT !.nbyte = @ - ValueLen(c.ll[i].value) + ValueLen(value),
                      !.ll = MoveToFront(upd, i)]
    ELSE [c EXCEPT !.ll = <<[key |-> key, value |-> value]>> \o @,
                   !.cache = @ \cup {key},
                   !.nbyte = @ + Len(key) + ValueLen(value)]

\* Cache.Add.
CacheAdd(c, key, value) == EvictLoop(CacheInsert(c, key, value))

\* Cache.Len.
CacheLen(c) == Len(c.ll)

\* ---- the LRU driven by a sequence of operations

\* Ghost: key k moved to the head of the access order, evicted keys dropped.
Touch(order, k, live) ==
    SelectSeq(<<k>> \o SelectSeq(order, LAMBDA x : x # k),
              LAMBDA x : x \in live)

(***************************************************************************)
(* package dcache (src/dcache/dcache.go)                                   *)
(***************************************************************************)

\* The goroutines serving Get (HTTP handlers of the API and peer servers).
Threads == {1, 2, 3}

\* Gets served in a run (by all goroutines together), and RegisterPeers calls
\* in a run.
MaxGets == 3
MaxRegisters == 1

\* The keys asked for, and the data source behind the loader (var db).
GetKeys == {"Tom", "Sam"}

\* The keys asked for where errors are looked at: the empty key, a key db does
\* not hold, and one it holds; and the goroutines serving them.
ErrKeys == {"", "unknown", "Tom"}
ErrThreads == {1, 2}

AllKeys == GetKeys \cup ErrKeys
Db == [k \in {"Tom", "Jack", "Sam"} |->
          IF k = "Tom" THEN "630" ELSE IF k = "Jack" THEN "589" ELSE "567"]

\* The cacheBytes a Group is created with (2<<10 in main and the tests).
CacheBytesChoices == {2048, 5}

\* What a remote peer may answer with.
PeerBytes == {"999"}

\* nil error, nil picker, no LRU yet.
NilErr == "<nil>"
NoPicker == [nil |-> TRUE]
NoLru == [nil |-> TRUE]

\* An interface{} holding a []byte, and one holding a ByteView.
Bytes(b) == [type |-> "[]byte", b |-> b]
ByteView(b) == [type |-> "ByteView", b |-> b]

\* The Getter of main and the tests: (bytes, nil) for a key of db, otherwise
\* (nil, "<key> not exist").
GetterGet(key) ==
    IF key \in DOMAIN Db
    THEN [val |-> Bytes(Db[key]), err |-> NilErr]
    ELSE [val |-> Bytes(""), err |-> key \o " not exist"]

\* A PeerPicker: PickPeer(key) answers with the client of route[key], or with
\* (nil, false) where route[key] is "" (the key is this node's own).
PickerB == [name |-> "pickerB",
            route |-> [k \in AllKeys |-> IF k = "Tom" THEN "B" ELSE ""]]
Pickers == {PickerB}

\* A second picker, and the pickers racing RegisterPeers calls are given.
PickerC == [name |-> "pickerC",
            route |-> [k \in AllKeys |-> IF k = "Sam" THEN "C" ELSE ""]]
RegPickers == {PickerB, PickerC}

\* RegisterPeers calls in a run of racing registrations.
MaxRegCalls == 3

\* peers.PickPeer(key).
PickPeer(p, key) ==
    IF p.route[key] # ""
    THEN [peer |-> p.route[key], ok |-> TRUE]
    ELSE [peer |-> "", ok |-> FALSE]

\* cache.get: under the shell's mutex; a shell without LRU misses.
ShellGet(c, key) ==
    IF c.lru = NoLru
    THEN [c |-> c, value |-> NoValue, ok |-> FALSE]
    ELSE LET r == CacheGet(c.lru, key)
         IN [c |-> [c EXCEPT !.lru = r.c], value |-> r.value, ok |-> r.ok]

\* cache.add: under the shell's mutex; the LRU is built on the first add.
ShellAdd(c, key, value) ==
    LET l == IF c.lru = NoLru THEN CacheNew(c.cacheBytes, FALSE) ELSE c.lru
    IN [c EXCEPT !.lru = CacheAdd(l, key, value)]

\* A goroutine outside Get.
IdleThread ==
    [pc |-> "idle", key |-> "", path |-> "", peer |-> "", call |-> 0,
     ret |-> [val |-> Bytes(""), err |-> NilErr], n |-> 0, early |-> FALSE]

\* A Call as Do creates it. fn, peer: what its executor runs; execs, removed,
\* failed: ghosts (times fn ran; the Call was deleted from the map; the
\* transport client returned an error).
NewCall(key, fn, peer) ==
    [key |-> key, done |-> FALSE, val |-> Bytes(""), err |-> NilErr,
     fn |-> fn, peer |-> peer, execs |-> 0, removed |-> FALSE, failed |-> FALSE]

\* NewGroup(name, cacheBytes, getter) and the goroutines before any Get.
InitGroupVars ==
    /\ peers = NoPicker
    /\ sf = <<>>
    /\ calls = <<>>
    /\ th = [t \in Threads |-> IdleThread]
    /\ hist = [t \in Threads |-> <<>>]
    /\ loaderCalls = [k \in AllKeys |-> 0]
    /\ peerCalls = [k \in AllKeys |-> 0]
    /\ regCalls = 0

InitLRUVars ==
    /\ recency = <<>>
    /\ touched = ""
    /\ lastOp = [op |-> "New"]

\* No Add in progress.
NoAdd == [pc |-> "idle", iters |-> 0, startLen |-> 0]

InitAddVars == addCall = NoAdd

\* The goroutines that call RegisterPeers.
Registrars == {1, 2, 3}

InitRegVars ==
    /\ reg = [r \in Registrars |-> [pc |-> "idle", arg |-> NoPicker]]
    /\ regLog = <<>>

\* A nil *consistenthash.Map and a nil map of clients.
NilMap == [nil |-> TRUE]
NilGetters == [nil |-> TRUE]

\* NewHTTPPool(self): peers and httpGetters stay nil until Set. crc names the
\* hash that stands for crc32.ChecksumIEEE, which Set's ring is built with.
NewHTTPPool(self) ==
    [self |-> self, basePath |-> "/_dcache/", peers |-> NilMap,
     httpGetters |-> NilGetters, crc |-> "atoi"]

\* No PickPeer yet.
NoPick == [done |-> FALSE]

InitPoolVars ==
    /\ pool = NewHTTPPool(<<>>)
    /\ picked = NoPick

\* The registry at program start: groups = make(map[string]*Group).
InitRegistryVars ==
    /\ groups = <<>>
    /\ created = <<>>
    /\ got = [op |-> "none"]

\* No client request: stack holds, innermost last, the Get calls of the nodes
\* serving the request; result is what the last request returned.
NoReq == [stack |-> <<>>, result |-> [none |-> TRUE]]

InitClusterVars ==
    /\ cluster = <<>>
    /\ req = NoReq

InitExtVars ==
    /\ InitAddVars
    /\ InitRegVars
    /\ InitPoolVars
    /\ InitRegistryVars
    /\ InitClusterVars

(***************************************************************************)
(* package consistenthash (src/unnamed/part_003)                           *)
(* A string is the sequence of its decimal digits: "27" is <<2, 7>> and "" *)
(* is <<>>.                                                                *)
(***************************************************************************)

\* Map.replicas as the ring is built with (New(3, ...)).
Replicas == 3

\* Number of Add calls a run makes.
MaxAdds == 3

\* strconv.Itoa for i >= 0.
RECURSIVE Itoa(_)
Itoa(i) == IF i < 10 THEN <<i>> ELSE Itoa(i \div 10) \o <<i % 10>>

\* strconv.Atoi on a digit string; the error on "" is dropped and 0 is used.
RECURSIVE Atoi(_)
Atoi(s) == IF s = <<>> THEN 0 ELSE 10 * Atoi(SubSeq(s, 1, Len(s) - 1)) + s[Len(s)]

\* The sum of the digits: a second Hash, under which distinct peers collide.
RECURSIVE DigitSum(_)
DigitSum(s) == IF s = <<>> THEN 0 ELSE Head(s) + DigitSum(Tail(s))

\* m.hash(data) as the int the Map stores. Every hash of this model is below
\* 2^32, so the conversions int -> uint32 -> int leave it as it is.
HashOf(fn, data) == IF fn = "atoi" THEN Atoi(data) ELSE DigitSum(data)

\* New(replicas, fn).
MapNew(replicas, fn) ==
    [replicas |-> replicas, keys |-> <<>>, hash |-> fn, hashMap |-> <<>>]

\* sort.Ints: the elements of s in non-decreasing order. rank[i] is the place
\* of s[i] in the sorted sequence (equal elements keep their order).
SortInts(s) ==
    LET n == Len(s)
        rank == [i \in 1..n |->
                   Cardinality({j \in 1..n :
                                   s[j] < s[i] \/ (s[j] = s[i] /\ j < i)}) + 1]
        at == [r \in 1..n |-> CHOOSE i \in 1..n : rank[i] = r]
    IN [r \in 1..n |-> s[at[r]]]

\* m.hashMap[hash] = key.
MapPut(f, k, v) == [x \in DOMAIN f \cup {k} |-> IF x = k THEN v ELSE f[x]]

\* The largest element of a non-empty set of integers.
MaxOf(S) == CHOOSE x \in S : \A y \in S : y <= x

\* Mutant of the loops of Map.Add: the replica index runs from 1 to replicas.
AddReplicasFromOne(m, names) ==
    LET n == Len(names) * m.replicas
        peerAt(j) == names[((j - 1) \div m.replicas) + 1]
        hashes == [j \in 1..n |->
                     HashOf(m.hash, Itoa(((j - 1) % m.replicas) + 1) \o peerAt(j))]
        fresh == {hashes[j] : j \in 1..n}
    IN [m EXCEPT !.keys = @ \o hashes,
                 !.hashMap = [h \in DOMAIN m.hashMap \cup fresh |->
                                 IF h \in fresh
                                 THEN peerAt(MaxOf({j \in 1..n : hashes[j] = h}))
                                 ELSE m.hashMap[h]]]

\* The two nested loops of Map.Add: every replica of every peer, in order.
\* Iteration j (from 1) handles replica (j - 1) % replicas of peer
\* (j - 1) \div replicas + 1; its hash is appended to keys, and hashMap[hash] is
\* overwritten, so a hash maps to the peer of the last iteration producing it.
AddReplicas(m, names) ==
    LET n == Len(names) * m.replicas
        peerAt(j) == names[((j - 1) \div m.replicas) + 1]
        hashes == [j \in 1..n |->
                     HashOf(m.hash, Itoa((j - 1) % m.replicas) \o peerAt(j))]
        fresh == {hashes[j] : j \in 1..n}
    IN [m EXCEPT !.keys = @ \o hashes,
                 !.hashMap = [h \in DOMAIN m.hashMap \cup fresh |->
                                 IF h \in fresh
                                 THEN peerAt(MaxOf({j \in 1..n : hashes[j] = h}))
                                 ELSE m.hashMap[h]]]

\* Mutant of Map.Add: the closing sort.Ints is left out.
MapAddUnsorted(m, names) == AddReplicas(m, names)

\* Map.Add.
MapAdd(m, names) ==
    LET n == AddReplicas(m, names)
    IN [n EXCEPT !.keys = SortInts(@)]

\* The scan of Map.Get: the peer of the first ring hash >= hash, "" if none.
ScanKeys(m, hash) ==
    LET ge == {i \in 1..Len(m.keys) : m.keys[i] >= hash}
    IN IF ge = {} THEN <<>>
       ELSE m.hashMap[m.keys[CHOOSE i \in ge : \A j \in ge : i <= j]]

\* Mutant of Map.Get: the scan takes the first ring hash strictly above.
MapGetStrict(m, key) ==
    IF Len(m.keys) = 0 THEN <<>>
    ELSE LET hash == HashOf(m.hash, key)
         IN IF hash > m.keys[Len(m.keys)]
            THEN m.hashMap[m.keys[1]]
            ELSE LET above == {i \in 1..Len(m.keys) : m.keys[i] > hash}
                 IN IF above = {} THEN <<>>
                    ELSE m.hashMap[m.keys[CHOOSE i \in above :
                                            \A j \in above : i <= j]]

\* Map.Get.
MapGet(m, key) ==
    IF Len(m.keys) = 0 THEN <<>>
    ELSE LET hash == HashOf(m.hash, key)
         IN IF hash > m.keys[Len(m.keys)]
            THEN m.hashMap[m.keys[1]]
            ELSE ScanKeys(m, hash)

\* ---- the ring driven by Add and Get

\* The hash functions a Map is built with, the peer lists Add is given, and
\* the keys looked up.
RingHashes == {"atoi", "sum"}
RingAddArgs == {<<<<2>>, <<4>>, <<6>>>>, <<<<8>>>>, <<<<4>>>>, <<<<1, 2>>>>,
                <<<<6>>, <<2>>>>}
RingKeys == {<<>>, <<0>>, <<2>>, <<1, 1>>, <<1, 3>>, <<2, 3>>, <<2, 7>>, <<9, 9>>}

InitRingVars ==
    /\ ringBefore = ring
    /\ addedBefore = {}
    /\ lastAdded = <<>>
    /\ nAdds = 0
    /\ addLog = <<>>
    /\ lookup = [key |-> <<>>, peer |-> <<>>, done |-> FALSE]

InitRing ==
    /\ \E fn \in RingHashes : ring = MapNew(Replicas, fn)
    /\ InitRingVars
    /\ lru = CacheNew(0, TRUE)
    /\ InitLRUVars
    /\ mainCache = [cacheBytes |-> 2048, lru |-> NoLru]
    /\ InitGroupVars
    /\ InitExtVars

RingAdd ==
    \E names \in RingAddArgs :
        /\ nAdds < MaxAdds
        /\ ring' = MapAdd(ring, names)
        /\ ringBefore' = ring
        /\ addedBefore' = addedBefore \cup {lastAdded[i] : i \in 1..Len(lastAdded)}
        /\ lastAdded' = names
        /\ nAdds' = nAdds + 1
        /\ addLog' = addLog \o names
        /\ lookup' = [key |-> <<>>, peer |-> <<>>, done |-> FALSE]
        /\ UNCHANGED <<lruVars, groupVars, extVars>>

RingGet ==
    \E key \in RingKeys :
        /\ lookup' = [key |-> key, peer |-> MapGet(ring, key), done |-> TRUE]
        /\ UNCHANGED <<ring, ringBefore, addedBefore, lastAdded, nAdds, addLog>>
        /\ UNCHANGED <<lruVars, groupVars, extVars>>

NextRing == RingAdd \/ RingGet

SpecRing == InitRing /\ [][NextRing]_vars

\* Ghost: every peer name given to Add so far.
AddedPeers == addedBefore \cup {lastAdded[i] : i \in 1..Len(lastAdded)}

\* The hashes on the ring, as a set.
RingHashSet(m) == {m.keys[i] : i \in 1..Len(m.keys)}

\* The smallest element of a non-empty set of integers.
MinOf(S) == CHOOSE x \in S : \A y \in S : x <= y

\* The ring position that owns hash h: the smallest ring hash >= h, or the
\* smallest ring hash of all when h is above every one of them.
OwnerHash(m, h) ==
    LET ge == {x \in RingHashSet(m) : x >= h}
    IN IF ge = {} THEN MinOf(RingHashSet(m)) ELSE MinOf(ge)

C9_RingStable ==
    \A key \in RingKeys :
        \/ MapGet(ring, key) = MapGet(ringBefore, key)
        \/ \E i \in 1..Len(lastAdded) : MapGet(ring, key) = lastAdded[i]

\* C9 witness: the test's step: "8" is new on the ring of 2, 4, 6; key "27"
\* moved from "2" to "8" while key "23" stayed with "4".
C9_Witness ==
    /\ ring.hash = "atoi"
    /\ addedBefore = {<<2>>, <<4>>, <<6>>}
    /\ lastAdded = <<<<8>>>>
    /\ MapGet(ringBefore, <<2, 7>>) = <<2>>
    /\ MapGet(ring, <<2, 7>>) = <<8>>
    /\ MapGet(ringBefore, <<2, 3>>) = <<4>>
    /\ MapGet(ring, <<2, 3>>) = <<4>>
    /\ lookup = [key |-> <<2, 7>>, peer |-> <<8>>, done |-> TRUE]

\* The ring entries (positions in keys) whose mapping targets peer p.
EntriesOf(m, p) == {i \in 1..Len(m.keys) : m.hashMap[m.keys[i]] = p}

\* The hash sequence is in non-decreasing order.
Sorted(keys) == \A i \in 1..(Len(keys) - 1) : keys[i] <= keys[i + 1]

\* C16 as stated: after any Adds the hash sequence is sorted and every added
\* peer p has exactly `replicas` ring entries whose mapping targets p, with the
\* hashes H(itoa(i) + p) for i in [0, replicas).
C16_ReplicasPerPeer ==
    /\ Sorted(ring.keys)
    /\ \A p \in AddedPeers :
          /\ Cardinality(EntriesOf(ring, p)) = ring.replicas
          /\ \A i \in 0..(ring.replicas - 1) :
                \E e \in EntriesOf(ring, p) :
                    ring.keys[e] = HashOf(ring.hash, Itoa(i) \o p)

\* Ghost: the (Add position, replica) pairs whose hash is h.
Producers(h) ==
    {<<j, i>> \in (1..Len(addLog)) \X (0..(ring.replicas - 1)) :
        HashOf(ring.hash, Itoa(i) \o addLog[j]) = h}

\* C16 amended: the hash sequence is sorted and holds, for every peer name
\* given to Add and each time it was given, the `replicas` hashes
\* H(itoa(i) + p), i in [0, replicas), and nothing else; every ring hash maps
\* to the peer given last among those that produce it.
C16_RingEntries ==
    /\ Sorted(ring.keys)
    /\ Len(ring.keys) = ring.replicas * Len(addLog)
    /\ DOMAIN ring.hashMap = RingHashSet(ring)
    /\ \A j \in 1..Len(addLog) : \A i \in 0..(ring.replicas - 1) :
          HashOf(ring.hash, Itoa(i) \o addLog[j]) \in RingHashSet(ring)
    /\ \A h \in RingHashSet(ring) :
          /\ Cardinality({e \in 1..Len(ring.keys) : ring.keys[e] = h})
                = Cardinality(Producers(h))
          /\ \E pr \in Producers(h) :
                /\ \A other \in Producers(h) : other[1] <= pr[1]
                /\ ring.hashMap[h] = addLog[pr[1]]

\* C16 witness: "2", "4" and "6" added under the colliding hash: the ring has
\* nine sorted entries, but only two of them target "2" (its third hash is
\* also a hash of "4", given later).
C16_Witness ==
    /\ ring.hash = "sum"
    /\ addLog = <<<<2>>, <<4>>, <<6>>>>
    /\ Len(ring.keys) = 9
    /\ Cardinality(EntriesOf(ring, <<2>>)) = 2
    /\ ring.hashMap[4] = <<4>>

InitLRU ==
    /\ \E mb \in LruMaxBytes : lru = CacheNew(mb, TRUE)
    /\ InitLRUVars
    /\ ring = MapNew(Replicas, "atoi")
    /\ InitRingVars
    /\ mainCache = [cacheBytes |-> 2048, lru |-> NoLru]
    /\ InitGroupVars
    /\ InitExtVars

OpAdd ==
    \E k \in LruKeys, v \in LruValues :
        /\ lru' = CacheAdd([lru EXCEPT !.evicted = <<>>], k, v)
        /\ recency' = Touch(recency, k, lru'.cache)
        /\ touched' = k
        /\ lastOp' = [op |-> "Add", key |-> k, value |-> v]
        /\ UNCHANGED <<ringVars, groupVars, extVars>>

OpGet ==
    \E k \in LruKeys :
        LET r == CacheGet([lru EXCEPT !.evicted = <<>>], k)
        IN /\ lru' = r.c
           /\ recency' = IF r.ok THEN Touch(recency, k, lru'.cache) ELSE recency
           /\ touched' = IF r.ok THEN k ELSE ""
           /\ lastOp' = [op |-> "Get", key |-> k, value |-> r.value, ok |-> r.ok]
           /\ UNCHANGED <<ringVars, groupVars, extVars>>

OpRemoveOldest ==
    /\ lru' = CacheRemoveOldest([lru EXCEPT !.evicted = <<>>])
    /\ recency' = SelectSeq(recency, LAMBDA x : x \in lru'.cache)
    /\ touched' = ""
    /\ lastOp' = [op |-> "RemoveOldest"]
    /\ UNCHANGED <<ringVars, groupVars, extVars>>

NextLRU == OpAdd \/ OpGet \/ OpRemoveOldest

SpecLRU == InitLRU /\ [][NextLRU]_vars

\* The true footprint of a list of entries: the sum of len(key) + value.Len().
RECURSIVE Footprint(_)
Footprint(ll) ==
    IF ll = <<>> THEN 0
    ELSE Len(Head(ll).key) + ValueLen(Head(ll).value) + Footprint(Tail(ll))

\* Position of key k in an access order (0 when absent).
Pos(order, k) ==
    IF \E i \in 1..Len(order) : order[i] = k
    THEN CHOOSE i \in 1..Len(order) : order[i] = k
    ELSE 0

\* C6: with maxBytes > 0, after every Add, Get and RemoveOldest the counter
\* currentBytes (nbyte) equals the sum of len(key) + value.Len() over the live
\* entries and does not exceed maxBytes.
C6_FootprintBounded ==
    lru.maxBytes > 0 =>
        /\ lru.nbyte = Footprint(lru.ll)
        /\ lru.nbyte <= lru.maxBytes

\* C6 witness: a bounded cache that an overflowing Add has just trimmed and that
\* still holds two entries.
C6_Witness ==
    /\ lru.maxBytes > 0
    /\ lastOp.op = "Add"
    /\ lru.evicted # <<>>
    /\ Len(lru.ll) = 2

\* C7: every entry an operation evicts was accessed (added or hit by Get) less
\* recently than every entry that survives it; the key the operation itself
\* accessed is the most recent one.
C7_EvictsLeastRecent ==
    [][\A e \in lru.cache \ lru'.cache : \A s \in lru'.cache :
          \/ s = touched'
          \/ (Pos(recency, s) # 0 /\ Pos(recency, s) < Pos(recency, e))]_vars

\* C7 witness: k2 was evicted although k1 is still live and key3 arrived last:
\* k1 outlived k2 only because it was accessed after k2.
C7_Witness ==
    /\ lru.maxBytes = 10
    /\ Len(lru.evicted) = 1
    /\ lru.evicted[1].key = "k2"
    /\ lru.evicted[1].value = "v1"
    /\ Len(lru.ll) = 2
    /\ lru.ll[1].key = "key3"
    /\ lru.ll[2].key = "k1"
    /\ lastOp.op = "Add"

\* The value the cache held for key k before the operation that made lastOp',
\* or that operation's own value when it was an Add of k.
CurrentValue(k) ==
    IF lastOp'.op = "Add" /\ lastOp'.key = k
    THEN lastOp'.value
    ELSE lru.ll[Element(lru, k)].value

\* The keys an operation removed: those live before it (or added by it) and
\* not live after it.
Removed ==
    (lru.cache \cup (IF lastOp'.op = "Add" THEN {lastOp'.key} ELSE {})) \ lru'.cache

\* C18: every entry an operation removes (by an overflowing Add or by
\* RemoveOldest) causes exactly one callback invocation, with the entry's key
\* and its current value (the latest one if Add overwrote it), made after the
\* key left the map and currentBytes was decremented; an operation that
\* removes nothing, such as an Add that only overwrites, invokes no callback.
C18_EvictionCallback ==
    [][LET ev == lru'.evicted
       IN /\ Len(ev) = Cardinality(Removed)
          /\ {ev[e].key : e \in 1..Len(ev)} = Removed
          /\ \A e \in 1..Len(ev) :
                /\ ev[e].value = CurrentValue(ev[e].key)
                /\ ~ev[e].mapped
                /\ ev[e].nbyte =
                      IF e = Len(ev) THEN lru'.nbyte
                      ELSE ev[e + 1].nbyte + Len(ev[e + 1].key)
                              + ValueLen(ev[e + 1].value)]_vars

\* C18 witness: maxBytes = 10; k1, k2 and k3 were added with 4 bytes each: the
\* third Add evicted k1 alone, Len() is 2 and the callback ran once, with
\* (k1, v1), when k1 was out of the map and 8 bytes were counted.
C18_Witness ==
    /\ lru.maxBytes = 10
    /\ lastOp = [op |-> "Add", key |-> "k3", value |-> "v1"]
    /\ CacheLen(lru) = 2
    /\ lru.ll[1].key = "k3" /\ lru.ll[2].key = "k2"
    /\ lru.evicted = <<[key |-> "k1", value |-> "v1", mapped |-> FALSE, nbyte |-> 8]>>

(***************************************************************************)
(* HTTPPool (src/dcache/http.go). Peer addresses and keys are digit        *)
(* strings, as on the ring above. CRC-32 is not computed: the pool's ring  *)
(* hashes with the decimal value (no two virtual nodes collide, as with    *)
(* the three addresses of main) or with the digit sum (they collide).      *)
(***************************************************************************)

\* const defaultReplicas.
DefaultReplicas == 50

\* A nil *httpGetter, and the client Set makes for a peer.
NilClient == [nil |-> TRUE]
HttpGetter(peer, basePath) == [baseURL |-> [peer |-> peer, path |-> basePath]]

\* The peers of a list, as a set.
Range(names) == {names[i] : i \in 1..Len(names)}

\* HTTPPool.Set(names...): a new ring and a new map of clients.
PoolSetTo(p, names) ==
    [p EXCEPT !.peers = MapAdd(MapNew(DefaultReplicas, p.crc), names),
              !.httpGetters = [x \in Range(names) |-> HttpGetter(x, p.basePath)]]

\* p.httpGetters[peer]: nil for a peer the map does not hold.
GetterOf(p, peer) ==
    IF peer \in DOMAIN p.httpGetters THEN p.httpGetters[peer] ELSE NilClient

\* HTTPPool.PickPeer(key). Before any Set p.peers is a nil *Map, and Map.Get
\* reads m.keys through it: a nil pointer dereference, the call panics.
PoolPickPeer(p, key) ==
    IF p.peers = NilMap
    THEN [outcome |-> "panic", peer |-> <<>>, client |-> NilClient]
    ELSE LET peer == MapGet(p.peers, key)
         IN IF peer # <<>> /\ peer # p.self
            THEN [outcome |-> "picked", peer |-> peer, client |-> GetterOf(p, peer)]
            ELSE [outcome |-> "none", peer |-> <<>>, client |-> NilClient]

\* The addresses a pool is created with, and the peer lists Set is given.
PoolSelves == {<<1>>, <<2>>, <<9>>}
PoolSetArgs == {<<>>, <<<<2>>>>, <<<<1>>, <<2>>, <<3>>>>, <<<<3>>, <<1>>>>}

InitPool ==
    /\ \E self \in PoolSelves, fn \in RingHashes :
          pool = [NewHTTPPool(self) EXCEPT !.crc = fn]
    /\ picked = NoPick
    /\ InitAddVars
    /\ InitRegVars
    /\ InitRegistryVars
    /\ InitClusterVars
    /\ lru = CacheNew(0, TRUE)
    /\ InitLRUVars
    /\ ring = MapNew(Replicas, "atoi")
    /\ InitRingVars
    /\ mainCache = [cacheBytes |-> 2048, lru |-> NoLru]
    /\ InitGroupVars

PoolSet ==
    \E names \in PoolSetArgs :
        /\ pool' = PoolSetTo(pool, names)
        /\ picked' = NoPick
        /\ UNCHANGED <<lruVars, ringVars, groupVars, addVars, regVars, registryVars, clusterVars>>

PoolPick ==
    \E key \in RingKeys :
        /\ picked' = [done |-> TRUE, key |-> key, ret |-> PoolPickPeer(pool, key)]
        /\ UNCHANGED pool
        /\ UNCHANGED <<lruVars, ringVars, groupVars, addVars, regVars, registryVars, clusterVars>>

NextPool == PoolSet \/ PoolPick

SpecPool == InitPool /\ [][NextPool]_vars

\* The ring owner of key as the pool sees it: "" while the pool has no ring or
\* an empty one.
PoolOwner(p, key) == IF p.peers = NilMap THEN <<>> ELSE MapGet(p.peers, key)

\* C15 as stated: PickPeer answers (nil, false) when the ring owner of the key
\* is self or there is none (empty ring, or no Set yet); otherwise it answers
\* (client, true) with the client Set made for the owner; never one for self.
C15_PickPeer ==
    picked.done =>
        LET owner == PoolOwner(pool, picked.key)
        IN IF owner = <<>> \/ owner = pool.self
           THEN picked.ret = [outcome |-> "none", peer |-> <<>>, client |-> NilClient]
           ELSE /\ picked.ret.outcome = "picked"
                /\ picked.ret.peer = owner
                /\ picked.ret.peer # pool.self
                /\ picked.ret.client = HttpGetter(owner, pool.basePath)

(***************************************************************************)
(* A cluster as main starts it: every node runs the same Group behind an   *)
(* HTTPPool created with the node's own address and Set to the same list   *)
(* of addresses. A client's Get is followed through the nodes serving it;  *)
(* with one request at a time every single-flight Call has one caller, so  *)
(* Do is left out here.                                                    *)
(* A key is a sequence of bytes: a digit stands for itself, other bytes    *)
(* are their ASCII codes.                                                  *)
(***************************************************************************)

\* The bytes ' ', '%', '+' and 'B'.
Space == 32
Pct == 37
Plus == 43
HexB == 66

\* url.QueryEscape: a space becomes '+', '+' becomes "%2B", '%' becomes "%25";
\* digits and letters stay.
RECURSIVE QueryEscape(_)
QueryEscape(str) ==
    IF str = <<>> THEN <<>>
    ELSE (IF Head(str) = Space THEN <<Plus>>
          ELSE IF Head(str) = Plus THEN <<Pct, 2, HexB>>
          ELSE IF Head(str) = Pct THEN <<Pct, 2, 5>>
          ELSE <<Head(str)>>) \o QueryEscape(Tail(str))

\* The value of a hexadecimal digit ('A' is byte 65).
HexVal(c) == IF c <= 9 THEN c ELSE c - 55

\* The decoding that yields r.URL.Path: "%XY" becomes the byte XY; every other
\* byte stays, '+' included.
RECURSIVE PathUnescape(_)
PathUnescape(str) ==
    IF str = <<>> THEN <<>>
    ELSE IF Head(str) = Pct /\ Len(str) >= 3
    THEN <<16 * HexVal(str[2]) + HexVal(str[3])>> \o PathUnescape(SubSeq(str, 4, Len(str)))
    ELSE <<Head(str)>> \o PathUnescape(Tail(str))

\* The key ServeHTTP reads from the path of the request httpGetter.Get sends
\* for key.
KeyOnPeer(key) == PathUnescape(QueryEscape(key))

\* The nodes (their addresses), the list every node's Set is given, the keys
\* clients ask for, and the keys of the data source.
ClusterNodes == {<<1>>, <<2>>, <<3>>}
ClusterPeers == <<<<1>>, <<2>>, <<3>>>>
ClusterKeys == {<<>>, <<2>>, <<1, 1>>, <<Space>>, <<Plus>>, <<1, Space, 2>>, <<2, Plus>>}
ClusterDbKeys == {<<2>>, <<1, 1>>, <<1, Plus, 2>>}

\* Calls nested in one request that are followed.
MaxHops == 4

\* The Getter of every node.
ClusterGetter(key) ==
    IF key \in ClusterDbKeys
    THEN [val |-> Bytes("630"), err |-> NilErr]
    ELSE [val |-> Bytes(""), err |-> "not exist"]

\* startCacheServer(addr, addrs, g) on a node, and its Group before any Get.
StartNode(addr, fn) ==
    [pool |-> PoolSetTo([NewHTTPPool(addr) EXCEPT !.crc = fn], ClusterPeers),
     mainCache |-> [cacheBytes |-> 2048, lru |-> NoLru]]

\* A call of Group.Get(key) on a node.
Frame(node, key) ==
    [node |-> node, key |-> key, pc |-> "get", val |-> "", err |-> NilErr]

InitCluster ==
    /\ \E fn \in RingHashes : cluster = [n \in ClusterNodes |-> StartNode(n, fn)]
    /\ req = NoReq
    /\ InitAddVars
    /\ InitRegVars
    /\ InitPoolVars
    /\ InitRegistryVars
    /\ lru = CacheNew(0, TRUE)
    /\ InitLRUVars
    /\ ring = MapNew(Replicas, "atoi")
    /\ InitRingVars
    /\ mainCache = [cacheBytes |-> 2048, lru |-> NoLru]
    /\ InitGroupVars

\* The innermost call of the request.
Top == req.stack[Len(req.stack)]

\* The innermost call moves on to frame f.
SetTop(f) == [req EXCEPT !.stack[Len(req.stack)] = f]

\* A client asks node n for key (the API server's handler calls g.Get(key)).
ClientGet ==
    \E n \in ClusterNodes, key \in ClusterKeys :
        /\ req.stack = <<>>
        /\ req' = [stack |-> <<Frame(n, key)>>, result |-> [none |-> TRUE]]
        /\ UNCHANGED cluster
        /\ UNCHANGED <<lruVars, ringVars, groupVars, addVars, regVars, poolVars, registryVars>>

\* Group.Get on the node of the innermost call: the key check and the cache
\* lookup.
NodeGet ==
    /\ req.stack # <<>>
    /\ Top.pc = "get"
    /\ IF Top.key = <<>>
       THEN /\ req' = SetTop([Top EXCEPT !.pc = "ret", !.err = "key is required"])
            /\ UNCHANGED cluster
       ELSE LET r == ShellGet(cluster[Top.node].mainCache, Top.key)
            IN /\ cluster' = [cluster EXCEPT ![Top.node].mainCache = r.c]
               /\ req' = IF r.ok
                         THEN SetTop([Top EXCEPT !.pc = "ret", !.val = r.value])
                         ELSE SetTop([Top EXCEPT !.pc = "load"])
    /\ UNCHANGED <<lruVars, ringVars, groupVars, addVars, regVars, poolVars, registryVars>>

\* Group.load: the node's pool picks a peer and the request goes to that peer's
\* ServeHTTP, which calls Get with the key it reads from the path; or the
\* transport fails and the zero ByteView is returned; or nothing is picked and
\* getLocally loads and caches.
NodeLoad ==
    /\ req.stack # <<>>
    /\ Top.pc = "load"
    /\ Len(req.stack) < MaxHops
    /\ LET pick == PoolPickPeer(cluster[Top.node].pool, Top.key)
           loaded == ClusterGetter(Top.key)
       IN IF pick.outcome = "picked"
          THEN /\ \E up \in BOOLEAN :
                     req' = IF up
                            THEN [req EXCEPT !.stack =
                                     Append(SetTop([Top EXCEPT !.pc = "fetch"]).stack,
                                            Frame(pick.peer, KeyOnPeer(Top.key)))]
                            ELSE SetTop([Top EXCEPT !.pc = "ret"])
               /\ UNCHANGED cluster
          ELSE IF loaded.err # NilErr
          THEN /\ req' = SetTop([Top EXCEPT !.pc = "ret", !.err = loaded.err])
               /\ UNCHANGED cluster
          ELSE /\ cluster' = [cluster EXCEPT ![Top.node].mainCache =
                                  ShellAdd(@, Top.key, loaded.val.b)]
               /\ req' = SetTop([Top EXCEPT !.pc = "ret", !.val = loaded.val.b])
    /\ UNCHANGED <<lruVars, ringVars, groupVars, addVars, regVars, poolVars, registryVars>>

\* Get returns. To the client: the request is over. To ServeHTTP: an error is
\* answered with status 500, which the calling node's client turns into an
\* error and load into the zero ByteView; a value is sent back and returned by
\* the calling node as it is, without caching it.
NodeReturn ==
    /\ req.stack # <<>>
    /\ Top.pc = "ret"
    /\ IF Len(req.stack) = 1
       THEN req' = [stack |-> <<>>,
                    result |-> [key |-> Top.key, val |-> Top.val, err |-> Top.err]]
       ELSE LET caller == req.stack[Len(req.stack) - 1]
                rest == SubSeq(req.stack, 1, Len(req.stack) - 2)
            IN req' = [req EXCEPT !.stack =
                          Append(rest, [caller EXCEPT
                                           !.pc = "ret",
                                           !.val = IF Top.err = NilErr THEN Top.val ELSE ""])]
    /\ UNCHANGED cluster
    /\ UNCHANGED <<lruVars, ringVars, groupVars, addVars, regVars, poolVars, registryVars>>

NextCluster == ClientGet \/ NodeGet \/ NodeLoad \/ NodeReturn

SpecCluster == InitCluster /\ [][NextCluster]_vars

\* C19 as stated: a Get is forwarded at most once; the node it is forwarded to
\* loads it locally (its PickPeer picks nothing for the key it is asked for);
\* no node serves the same request twice.
C19_OneHop ==
    /\ Len(req.stack) <= 2
    /\ \A i, j \in 1..Len(req.stack) :
          req.stack[i].node = req.stack[j].node => i = j
    /\ Len(req.stack) >= 2 =>
          PoolPickPeer(cluster[req.stack[2].node].pool, req.stack[2].key).outcome
              = "none"

(***************************************************************************)
(* Cache.Add one step at a time: the update or insert, then the eviction   *)
(* loop iteration by iteration, then the return.                           *)
(***************************************************************************)

\* The byte caps New is given here: any int64, a negative one included.
AddMaxBytes == {-1, 0, 6, 10}

\* Iterations the loop is followed for beyond one per entry.
MaxSpins == 2

InitAdd ==
    /\ \E mb \in AddMaxBytes : lru = CacheNew(mb, TRUE)
    /\ InitLRUVars
    /\ ring = MapNew(Replicas, "atoi")
    /\ InitRingVars
    /\ mainCache = [cacheBytes |-> 2048, lru |-> NoLru]
    /\ InitGroupVars
    /\ InitExtVars

\* The condition of the loop closing Cache.Add.
LoopCondition(c) == c.maxBytes # 0 /\ c.nbyte > c.maxBytes

\* Add(k, v) up to its loop: the entry is updated or inserted.
AddInsert ==
    \E k \in LruKeys, v \in LruValues :
        /\ addCall.pc = "idle"
        /\ lru' = CacheInsert([lru EXCEPT !.evicted = <<>>], k, v)
        /\ addCall' = [pc |-> "loop", iters |-> 0, startLen |-> Len(lru'.ll)]
        /\ UNCHANGED <<recency, touched, lastOp>>
        /\ UNCHANGED <<ringVars, groupVars, regVars, poolVars, registryVars, clusterVars>>

\* One iteration of the loop: the condition holds, RemoveOldest is called.
AddEvict ==
    /\ addCall.pc = "loop"
    /\ LoopCondition(lru)
    /\ addCall.iters < addCall.startLen + MaxSpins
    /\ lru' = CacheRemoveOldest(lru)
    /\ addCall' = [addCall EXCEPT !.iters = @ + 1]
    /\ UNCHANGED <<recency, touched, lastOp>>
    /\ UNCHANGED <<ringVars, groupVars, regVars, poolVars, registryVars, clusterVars>>

\* The condition fails: Add returns.
AddReturn ==
    /\ addCall.pc = "loop"
    /\ ~LoopCondition(lru)
    /\ addCall' = [addCall EXCEPT !.pc = "idle"]
    /\ UNCHANGED lruVars
    /\ UNCHANGED <<ringVars, groupVars, regVars, poolVars, registryVars, clusterVars>>

NextAdd == AddInsert \/ AddEvict \/ AddReturn

SpecAdd == InitAdd /\ [][NextAdd]_vars

\* C14 as stated: Add terminates for every maxBytes: its loop iterates only
\* while maxBytes > 0 and currentBytes > maxBytes and every iteration evicts an
\* entry, so it iterates at most once per entry the cache held; when Add has
\* returned the bound holds or the cache is empty, and with maxBytes = 0
\* nothing is evicted.
C14_AddTerminates ==
    /\ addCall.iters <= addCall.startLen
    /\ addCall.iters > 0 => lru.maxBytes > 0
    /\ addCall.iters = Len(lru.evicted)
    /\ lru.maxBytes = 0 => lru.evicted = <<>>
    /\ (addCall.pc = "idle" /\ lru.maxBytes > 0)
          => (lru.nbyte <= lru.maxBytes \/ lru.ll = <<>>)


(***************************************************************************)
(* The Group served by concurrent goroutines                               *)
(***************************************************************************)

\* delete(m, key).
MapDelete(f, k) == [x \in DOMAIN f \ {k} |-> f[x]]

\* Ghost: the Gets started so far.
RECURSIVE SumN(_)
SumN(S) == IF S = {} THEN 0
           ELSE LET t == CHOOSE x \in S : TRUE IN th[t].n + SumN(S \ {t})
GetsStarted == SumN(Threads)

\* Ghost: some Get has already returned.
AnyReturned == \E u \in Threads : hist[u] # <<>>

\* Get returns (val, err) to its caller: the goroutine is free again.
Return(t, val, err, via) ==
    /\ th' = [th EXCEPT ![t] = [IdleThread EXCEPT !.n = th[t].n]]
    /\ hist' = [hist EXCEPT ![t] = Append(@,
                   [key |-> th[t].key, val |-> val, err |-> err, via |-> via,
                    call |-> th[t].call, early |-> th[t].early])]

\* The goroutine dies in a panic (a failed type assertion).
Panic(t) ==
    /\ th' = [th EXCEPT ![t].pc = "panic"]
    /\ UNCHANGED hist

Init ==
    /\ \E cb \in CacheBytesChoices : mainCache = [cacheBytes |-> cb, lru |-> NoLru]
    /\ InitGroupVars
    /\ lru = CacheNew(0, TRUE)
    /\ InitLRUVars
    /\ ring = MapNew(Replicas, "atoi")
    /\ InitRingVars
    /\ InitExtVars

\* Group.Get(k) up to the call of load: the key check and the cache lookup. A
\* request is served by the first free goroutine.
GetOf(t, k) ==
    /\ th[t].pc = "idle"
    /\ \A u \in Threads : u < t => th[u].pc # "idle"
    /\ GetsStarted < MaxGets
    /\ IF k = ""
       THEN /\ th' = [th EXCEPT ![t].n = @ + 1]
            /\ hist' = [hist EXCEPT ![t] = Append(@,
                           [key |-> k, val |-> "", err |-> "key is required",
                            via |-> "none", call |-> 0, early |-> FALSE])]
            /\ UNCHANGED mainCache
       ELSE LET r == ShellGet(mainCache, k)
            IN /\ mainCache' = r.c
               /\ IF r.ok
                  THEN /\ th' = [th EXCEPT ![t].n = @ + 1]
                       /\ hist' = [hist EXCEPT ![t] = Append(@,
                                      [key |-> k, val |-> r.value, err |-> NilErr,
                                       via |-> "hit", call |-> 0, early |-> FALSE])]
                  ELSE /\ th' = [th EXCEPT ![t].n = @ + 1, ![t].key = k,
                                           ![t].pc = "load",
                                           ![t].early = ~AnyReturned]
                       /\ UNCHANGED hist
    /\ UNCHANGED <<peers, sf, calls, loaderCalls, peerCalls, regCalls>>
    /\ UNCHANGED <<lruVars, ringVars, extVars>>

\* Group.Get called with one of the keys of db's clients.
GetEnter(t) == \E k \in GetKeys : GetOf(t, k)

\* Group.Get called with the empty key, an unknown key or a known one.
GetEnterErr(t) == \E k \in ErrKeys : GetOf(t, k)

\* Group.load up to the call of Do: the picker, when one is attached, decides
\* between the remote fetch and getLocally. g.peers is read without
\* synchronisation: the read sees the field as it was before or after a racing
\* RegisterPeers.
Load(t) ==
    /\ th[t].pc = "load"
    /\ LET pick == IF peers # NoPicker THEN PickPeer(peers, th[t].key)
                   ELSE [peer |-> "", ok |-> FALSE]
       IN th' = [th EXCEPT ![t].pc = "do",
                           ![t].path = IF pick.ok THEN "remote" ELSE "local",
                           ![t].peer = pick.peer]
    /\ UNCHANGED <<mainCache, peers, sf, calls, hist, loaderCalls, peerCalls, regCalls>>
    /\ UNCHANGED <<lruVars, ringVars, extVars>>

\* Mutant of the key given to Do: remote and local loads keyed apart.
DoKeyPerPath(t) == th[t].path \o ":" \o th[t].key

\* The key load and getLocally hand to g.sf.Do.
DoKey(t) == th[t].key

\* Mutant of Do's locked section: a Call in flight is not looked for.
DoEnterNoLookup(t) ==
    /\ th[t].pc = "do"
    /\ calls' = Append(calls, NewCall(DoKey(t), th[t].path, th[t].peer))
    /\ sf' = MapPut(sf, DoKey(t), Len(calls) + 1)
    /\ th' = [th EXCEPT ![t].pc = "fn", ![t].call = Len(calls) + 1]
    /\ UNCHANGED <<mainCache, peers, hist, loaderCalls, peerCalls, regCalls>>
    /\ UNCHANGED <<lruVars, ringVars, extVars>>

\* singleflight Do, under its mutex: join the Call in flight for the key, or
\* create and publish one and become its executor.
DoEnter(t) ==
    /\ th[t].pc = "do"
    /\ IF DoKey(t) \in DOMAIN sf
       THEN /\ th' = [th EXCEPT ![t].pc = "wait", ![t].call = sf[DoKey(t)]]
            /\ UNCHANGED <<sf, calls>>
       ELSE /\ calls' = Append(calls, NewCall(DoKey(t), th[t].path, th[t].peer))
            /\ sf' = MapPut(sf, DoKey(t), Len(calls) + 1)
            /\ th' = [th EXCEPT ![t].pc = "fn", ![t].call = Len(calls) + 1]
    /\ UNCHANGED <<mainCache, peers, hist, loaderCalls, peerCalls, regCalls>>
    /\ UNCHANGED <<lruVars, ringVars, extVars>>

\* singleflight Do, executor: fn's result goes into the Call and the
\* completion signal fires.
Complete(c, r) ==
    [c EXCEPT !.val = r.val, !.err = r.err, !.done = TRUE, !.execs = @ + 1]

\* The executor of getLocally: the application loader.
FnLoader(t) ==
    /\ th[t].pc = "fn"
    /\ th[t].path = "local"
    /\ calls' = [calls EXCEPT ![th[t].call] = Complete(@, GetterGet(th[t].key))]
    /\ loaderCalls' = [loaderCalls EXCEPT ![th[t].key] = @ + 1]
    /\ th' = [th EXCEPT ![t].pc = "del"]
    /\ UNCHANGED <<mainCache, peers, sf, hist, peerCalls, regCalls>>
    /\ UNCHANGED <<lruVars, ringVars, extVars>>

\* Mutant of the remote fetch: after a failed fetch the loader is asked.
FnPeerFallback(t) ==
    /\ th[t].pc = "fn"
    /\ th[t].path = "remote"
    /\ \E ok \in BOOLEAN, b \in PeerBytes :
          /\ calls' = [calls EXCEPT ![th[t].call] =
                 [Complete(@, [val |-> IF ok THEN ByteView(b)
                                       ELSE ByteView(GetterGet(th[t].key).val.b),
                               err |-> NilErr])
                     EXCEPT !.failed = ~ok]]
          /\ loaderCalls' = IF ok THEN loaderCalls
                            ELSE [loaderCalls EXCEPT ![th[t].key] = @ + 1]
    /\ peerCalls' = [peerCalls EXCEPT ![th[t].key] = @ + 1]
    /\ th' = [th EXCEPT ![t].pc = "del"]
    /\ UNCHANGED <<mainCache, peers, sf, hist, regCalls>>
    /\ UNCHANGED <<lruVars, ringVars, extVars>>

\* The executor of the remote fetch: GetFromPeer through the picked client.
\* The peer answers with bytes or the transport fails; the failure is logged
\* and the zero ByteView returned with a nil error.
FnPeer(t) ==
    /\ th[t].pc = "fn"
    /\ th[t].path = "remote"
    /\ \E ok \in BOOLEAN, b \in PeerBytes :
          LET value == IF ok THEN ByteView(b) ELSE ByteView("")
          IN calls' = [calls EXCEPT ![th[t].call] =
                          [Complete(@, [val |-> value, err |-> NilErr])
                              EXCEPT !.failed = ~ok]]
    /\ peerCalls' = [peerCalls EXCEPT ![th[t].key] = @ + 1]
    /\ th' = [th EXCEPT ![t].pc = "del"]
    /\ UNCHANGED <<mainCache, peers, sf, hist, loaderCalls, regCalls>>
    /\ UNCHANGED <<lruVars, ringVars, extVars>>

\* Mutant of the executor's exit: the Call stays in the map.
DoFinishNoDelete(t) ==
    /\ th[t].pc = "del"
    /\ th' = [th EXCEPT ![t].pc = "post",
                        ![t].ret = [val |-> calls[th[t].call].val,
                                    err |-> calls[th[t].call].err]]
    /\ UNCHANGED <<mainCache, peers, sf, calls, hist, loaderCalls, peerCalls, regCalls>>
    /\ UNCHANGED <<lruVars, ringVars, extVars>>

\* singleflight Do, executor: under the mutex again, the Call is removed from
\* the map; Do returns the Call's (val, err).
DoFinish(t) ==
    /\ th[t].pc = "del"
    /\ sf' = MapDelete(sf, calls[th[t].call].key)
    /\ calls' = [calls EXCEPT ![th[t].call].removed = TRUE]
    /\ th' = [th EXCEPT ![t].pc = "post",
                        ![t].ret = [val |-> calls[th[t].call].val,
                                    err |-> calls[th[t].call].err]]
    /\ UNCHANGED <<mainCache, peers, hist, loaderCalls, peerCalls, regCalls>>
    /\ UNCHANGED <<lruVars, ringVars, extVars>>

\* Mutant of the waiter: it returns without waiting for the signal.
DoWaitNoWait(t) ==
    /\ th[t].pc = "wait"
    /\ th' = [th EXCEPT ![t].pc = "post",
                        ![t].ret = [val |-> calls[th[t].call].val,
                                    err |-> calls[th[t].call].err]]
    /\ UNCHANGED <<mainCache, peers, sf, calls, hist, loaderCalls, peerCalls, regCalls>>
    /\ UNCHANGED <<lruVars, ringVars, extVars>>

\* singleflight Do, waiter: blocked until the completion signal, then the
\* Call's shared (val, err).
DoWait(t) ==
    /\ th[t].pc = "wait"
    /\ calls[th[t].call].done
    /\ th' = [th EXCEPT ![t].pc = "post",
                        ![t].ret = [val |-> calls[th[t].call].val,
                                    err |-> calls[th[t].call].err]]
    /\ UNCHANGED <<mainCache, peers, sf, calls, hist, loaderCalls, peerCalls, regCalls>>
    /\ UNCHANGED <<lruVars, ringVars, extVars>>

\* Group.load after Do on the remote path: return ret.(ByteView), err.
LoadReturn(t) ==
    /\ th[t].pc = "post"
    /\ th[t].path = "remote"
    /\ IF th[t].ret.val.type = "ByteView"
       THEN Return(t, th[t].ret.val.b, th[t].ret.err, "remote")
       ELSE Panic(t)
    /\ UNCHANGED <<mainCache, peers, sf, calls, loaderCalls, peerCalls, regCalls>>
    /\ UNCHANGED <<lruVars, ringVars, extVars>>

\* Mutant of getLocally: the loaded value is returned but not cached.
GetLocallyReturnNoPopulate(t) ==
    /\ th[t].pc = "post"
    /\ th[t].path = "local"
    /\ IF th[t].ret.err # NilErr
       THEN Return(t, "", th[t].ret.err, "local")
       ELSE IF th[t].ret.val.type = "[]byte"
       THEN Return(t, th[t].ret.val.b, NilErr, "local")
       ELSE Panic(t)
    /\ UNCHANGED <<mainCache, peers, sf, calls, loaderCalls, peerCalls, regCalls>>
    /\ UNCHANGED <<lruVars, ringVars, extVars>>

\* Mutant of getLocally: the zero ByteView is cached and returned.
GetLocallyReturnZero(t) ==
    /\ th[t].pc = "post"
    /\ th[t].path = "local"
    /\ IF th[t].ret.err # NilErr
       THEN /\ Return(t, "", th[t].ret.err, "local")
            /\ UNCHANGED mainCache
       ELSE IF th[t].ret.val.type = "[]byte"
       THEN /\ mainCache' = ShellAdd(mainCache, th[t].key, "")
            /\ Return(t, "", NilErr, "local")
       ELSE /\ Panic(t)
            /\ UNCHANGED mainCache
    /\ UNCHANGED <<peers, sf, calls, loaderCalls, peerCalls, regCalls>>
    /\ UNCHANGED <<lruVars, ringVars, extVars>>

\* Mutant of getLocally: a failed load leaves an empty entry in the cache.
GetLocallyReturnCachesError(t) ==
    /\ th[t].pc = "post"
    /\ th[t].path = "local"
    /\ IF th[t].ret.err # NilErr
       THEN /\ mainCache' = ShellAdd(mainCache, th[t].key, "")
            /\ Return(t, "", th[t].ret.err, "local")
       ELSE IF th[t].ret.val.type = "[]byte"
       THEN /\ mainCache' = ShellAdd(mainCache, th[t].key, th[t].ret.val.b)
            /\ Return(t, th[t].ret.val.b, NilErr, "local")
       ELSE /\ Panic(t)
            /\ UNCHANGED mainCache
    /\ UNCHANGED <<peers, sf, calls, loaderCalls, peerCalls, regCalls>>
    /\ UNCHANGED <<lruVars, ringVars, extVars>>

\* getLocally after Do: the error as it is, or the bytes.([]byte) cloned into a
\* ByteView, added to the cache (populateCache) and returned.
GetLocallyReturn(t) ==
    /\ th[t].pc = "post"
    /\ th[t].path = "local"
    /\ IF th[t].ret.err # NilErr
       THEN /\ Return(t, "", th[t].ret.err, "local")
            /\ UNCHANGED mainCache
       ELSE IF th[t].ret.val.type = "[]byte"
       THEN /\ mainCache' = ShellAdd(mainCache, th[t].key, th[t].ret.val.b)
            /\ Return(t, th[t].ret.val.b, NilErr, "local")
       ELSE /\ Panic(t)
            /\ UNCHANGED mainCache
    /\ UNCHANGED <<peers, sf, calls, loaderCalls, peerCalls, regCalls>>
    /\ UNCHANGED <<lruVars, ringVars, extVars>>

\* Group.RegisterPeers: a second attachment panics and changes nothing.
RegisterPeers ==
    \E p \in Pickers :
        /\ regCalls < MaxRegisters
        /\ regCalls' = regCalls + 1
        /\ peers' = IF peers # NoPicker THEN peers ELSE p
        /\ UNCHANGED <<mainCache, sf, calls, th, hist, loaderCalls, peerCalls>>
        /\ UNCHANGED <<lruVars, ringVars, extVars>>

Next ==
    \/ \E t \in Threads :
          \/ GetEnter(t)
          \/ Load(t)
          \/ DoEnter(t)
          \/ FnLoader(t)
          \/ FnPeer(t)
          \/ DoFinish(t)
          \/ DoWait(t)
          \/ LoadReturn(t)
          \/ GetLocallyReturn(t)
    \/ RegisterPeers

Spec == Init /\ [][Next]_vars

\* The same Group, asked for the keys of ErrKeys by two goroutines.
NextErr ==
    \/ \E t \in ErrThreads :
          \/ GetEnterErr(t)
          \/ Load(t)
          \/ DoEnter(t)
          \/ FnLoader(t)
          \/ FnPeer(t)
          \/ DoFinish(t)
          \/ DoWait(t)
          \/ LoadReturn(t)
          \/ GetLocallyReturn(t)
    \/ RegisterPeers

SpecErr == Init /\ [][NextErr]_vars


(***************************************************************************)
(* Properties of the Group and its single-flight coordinator               *)
(***************************************************************************)

\* Ghost: upstream loads performed for key k, by the loader or through a peer.
Loads(k) == loaderCalls[k] + peerCalls[k]

\* The goroutines running a single-flight executor (fn) for key k.
Executing(k) == {t \in Threads : th[t].pc = "fn" /\ th[t].key = k}

\* The goroutines that have been given a Get.
Callers == {t \in Threads : th[t].n > 0}

\* Every Get started so far was for key k and missed the cache before any Get
\* had returned: the Gets are concurrent misses for k.
ConcurrentMisses(k) ==
    \A t \in Threads :
        /\ th[t].pc # "idle" => th[t].early /\ th[t].key = k
        /\ \A i \in 1..Len(hist[t]) : hist[t][i].early /\ hist[t][i].key = k

\* The outcome e of a finished Get is the result of the Call it took part in.
ResultOfItsCall(e) ==
    /\ e.call \in 1..Len(calls)
    /\ calls[e.call].done
    /\ calls[e.call].execs = 1
    /\ e.val = calls[e.call].val.b
    /\ e.err = calls[e.call].err

\* C1 as stated: concurrent misses for one key cause exactly one upstream load,
\* and every caller returns the result of that load.
C1_ExactlyOneLoad ==
    \A k \in GetKeys :
        ConcurrentMisses(k) =>
            /\ Loads(k) <= 1
            /\ \A t \in Threads : \A i \in 1..Len(hist[t]) :
                  /\ hist[t][i].val = calls[1].val.b
                  /\ hist[t][i].err = calls[1].err

\* C1 amended: among concurrent misses for one key, loads never overlap, there
\* are no more loads than callers and at least one once a caller has returned,
\* and every caller that returns, returns the result of the one Call it
\* executed or joined.
C1_SharedLoads ==
    \A k \in GetKeys :
        ConcurrentMisses(k) =>
            /\ Cardinality(Executing(k)) <= 1
            /\ Loads(k) <= Cardinality(Callers)
            /\ (\E t \in Threads : hist[t] # <<>>) => Loads(k) >= 1
            /\ \A t \in Threads : \A i \in 1..Len(hist[t]) :
                  ResultOfItsCall(hist[t][i])

\* C1 witness: three concurrent misses for "Tom" have all returned after two
\* loads: one caller shared a load, one arrived after the first Call was gone.
C1_Witness ==
    /\ ConcurrentMisses("Tom")
    /\ Loads("Tom") = 2
    /\ \A t \in Threads : Len(hist[t]) = 1
    /\ Len(calls) = 2

\* C2: for every key at most one single-flight executor, loader call or peer
\* fetch, runs at a time.
C2_OneExecutorPerKey ==
    \A k \in GetKeys : Cardinality(Executing(k)) <= 1

\* C2 witness: a load of "Tom" runs while a second caller of "Tom" waits for it
\* and a load of "Sam" runs beside it.
C2_Witness ==
    /\ \E t \in Threads : th[t].pc = "fn" /\ th[t].key = "Tom"
    /\ \E t \in Threads : th[t].pc = "wait" /\ th[t].key = "Tom"
    /\ \E t \in Threads : th[t].pc = "fn" /\ th[t].key = "Sam"

\* C3: every caller that Do has returned to holds the (value, err) of its
\* Call, which fn produced in its single execution for that Call; so the N
\* callers of one Call hold identical pairs. While a Call for a key is in
\* flight no second caller of that key becomes an executor.
C3_SharedResult ==
    \A t \in Threads :
        /\ th[t].pc = "post" =>
              /\ calls[th[t].call].done
              /\ calls[th[t].call].execs = 1
              /\ th[t].ret = [val |-> calls[th[t].call].val,
                              err |-> calls[th[t].call].err]
        /\ \A u \in Threads :
              (th[t].pc = "post" /\ th[u].pc = "post" /\ th[t].call = th[u].call)
                  => th[t].ret = th[u].ret
        /\ \A u \in Threads :
              (th[t].pc \in {"fn", "del"} /\ th[u].pc \in {"fn", "del"}
                 /\ calls[th[t].call].key = calls[th[u].call].key)
                  => t = u

\* C3 witness: Do has returned to three callers of one Call, which ran fn once.
C3_Witness ==
    /\ \A t \in Threads : th[t].pc = "post" /\ th[t].call = 1
    /\ calls[1].execs = 1
    /\ Loads(calls[1].key) = 1

\* C4: when the executor leaves Do its key has no Call in the map, and the map
\* never holds a Call whose executor has left; a caller entering Do is never
\* handed a Call that was already removed, and when every earlier Call for its
\* key has been removed it executes fn itself.
C4_NothingCached ==
    [][/\ \A k \in DOMAIN sf' : ~calls'[sf'[k]].removed
       /\ \A t \in Threads :
          /\ (th[t].pc = "del" /\ th'[t].pc = "post")
                => calls[th[t].call].key \notin DOMAIN sf'
          /\ (th[t].pc = "do" /\ th'[t].pc # "do")
                => /\ ~calls'[th'[t].call].removed
                   /\ (\A c \in 1..Len(calls) :
                          calls[c].key = DoKey(t) => calls[c].removed)
                        => th'[t].pc = "fn"]_vars

\* C4 witness: a second Call for the same key ran fn after the first had been
\* removed, and produced another result.
C4_Witness ==
    \E c1, c2 \in 1..Len(calls) :
        /\ c1 < c2
        /\ calls[c1].key = calls[c2].key
        /\ calls[c1].removed
        /\ calls[c2].execs = 1
        /\ calls[c2].val # calls[c1].val

\* Gets were served one after the other: only the first goroutine was used.
Sequential == \A t \in Threads : t # 1 => th[t].n = 0

\* The first two Gets were successive Gets of key k, a key the loader knows
\* and no picker routes to a remote peer.
TwoLocalGets(k) ==
    /\ Sequential
    /\ Len(hist[1]) = 2
    /\ hist[1][1].key = k
    /\ hist[1][2].key = k
    /\ (peers = NoPicker \/ ~PickPeer(peers, k).ok)
    /\ GetterGet(k).err = NilErr

\* What C5 promises of two successive Gets.
LoadedOnce(k) ==
    /\ loaderCalls[k] = 1
    /\ hist[1][2].via = "hit"
    /\ hist[1][1].val = GetterGet(k).val.b
    /\ hist[1][2].val = GetterGet(k).val.b

\* C5 as stated: two successive Gets of a locally owned key the loader knows
\* invoke the loader once, the second is a cache hit, both return its bytes.
C5_SecondGetHits ==
    \A k \in GetKeys : TwoLocalGets(k) => LoadedOnce(k)

\* The entry of k fits the cache: no cap, or len(key) + len(value) within it.
Fits(k) ==
    \/ mainCache.cacheBytes = 0
    \/ Len(k) + Len(GetterGet(k).val.b) <= mainCache.cacheBytes

\* C5 amended: the same, for a key whose entry fits within cacheBytes.
C5_SecondGetHitsWhenFits ==
    \A k \in GetKeys : (TwoLocalGets(k) /\ Fits(k)) => LoadedOnce(k)

\* C5 witness: Get("Tom") twice on a Group of 2048 bytes, the second a hit.
C5_Witness ==
    /\ TwoLocalGets("Tom")
    /\ Fits("Tom")
    /\ hist[1][1].via = "local"
    /\ hist[1][2].via = "hit"

\* C10 as stated: a Get whose picker selected remote peer B is loaded by the
\* transport client of B and never by the loader, and returns the peer's bytes;
\* a Get whose picker selected self is loaded by the loader.
C10_PeerRouting ==
    \A t \in Threads :
        /\ th[t].pc \in {"wait", "fn", "del", "post", "panic"} =>
              /\ calls[th[t].call].fn = th[t].path
              /\ calls[th[t].call].peer = th[t].peer
        /\ th[t].pc # "panic"
        /\ \A i \in 1..Len(hist[t]) :
              hist[t][i].via = "remote" =>
                  /\ calls[hist[t][i].call].fn = "remote"
                  /\ hist[t][i].val = calls[hist[t][i].call].val.b

(***************************************************************************)
(* Group.RegisterPeers called from several goroutines. The method holds no *)
(* lock: its test of g.peers and its assignment are two steps.             *)
(***************************************************************************)

InitReg ==
    /\ mainCache = [cacheBytes |-> 2048, lru |-> NoLru]
    /\ InitGroupVars
    /\ lru = CacheNew(0, TRUE)
    /\ InitLRUVars
    /\ ring = MapNew(Replicas, "atoi")
    /\ InitRingVars
    /\ InitExtVars

\* RegisterPeers(p), the test `g.peers != nil`: the call panics, or goes on to
\* the assignment.
RegCheck(r) ==
    \E p \in RegPickers :
        /\ reg[r].pc = "idle"
        /\ regCalls < MaxRegCalls
        /\ regCalls' = regCalls + 1
        /\ IF peers # NoPicker
           THEN /\ regLog' = Append(regLog, [by |-> r, arg |-> p, outcome |-> "panic"])
                /\ UNCHANGED reg
           ELSE /\ reg' = [reg EXCEPT ![r] = [pc |-> "assign", arg |-> p]]
                /\ UNCHANGED regLog
        /\ UNCHANGED <<mainCache, peers, sf, calls, th, hist, loaderCalls, peerCalls>>
        /\ UNCHANGED <<lruVars, ringVars, addVars, poolVars, registryVars, clusterVars>>

\* RegisterPeers(p), the assignment `g.peers = peers`, and the return.
RegAssign(r) ==
    /\ reg[r].pc = "assign"
    /\ peers' = reg[r].arg
    /\ reg' = [reg EXCEPT ![r] = [pc |-> "idle", arg |-> NoPicker]]
    /\ regLog' = Append(regLog, [by |-> r, arg |-> reg[r].arg, outcome |-> "attached"])
    /\ UNCHANGED <<mainCache, sf, calls, th, hist, loaderCalls, peerCalls, regCalls>>
    /\ UNCHANGED <<lruVars, ringVars, addVars, poolVars, registryVars, clusterVars>>

NextReg == \E r \in Registrars : RegCheck(r) \/ RegAssign(r)

SpecReg == InitReg /\ [][NextReg]_vars

\* The finished RegisterPeers calls that attached their picker.
Attached == {i \in 1..Len(regLog) : regLog[i].outcome = "attached"}

\* C13 as stated: over any RegisterPeers calls on one Group, concurrent ones
\* included, at most one call attaches its picker, every call that ends after
\* it panics, and the attached picker stays the first one.
C13_AttachedOnce ==
    /\ Cardinality(Attached) <= 1
    /\ \A i \in Attached : \A j \in 1..Len(regLog) :
          j > i => regLog[j].outcome = "panic"
    /\ \A i \in Attached :
          (\A j \in Attached : i <= j) => peers = regLog[i].arg

(***************************************************************************)
(* The registry: NewGroup and GetGroup (src/dcache/dcache.go). A *Group is *)
(* the position in `created` of the Group it points to; 0 is nil.          *)
(***************************************************************************)

\* The names Groups are created and looked up under, the getters NewGroup is
\* given, and the number of NewGroup calls in a run.
GroupNames == {"scores", "users", "tmp"}
Getters == {"nil", "loader"}
MaxGroups == 3

InitRegistry ==
    /\ InitRegistryVars
    /\ InitAddVars
    /\ InitRegVars
    /\ InitPoolVars
    /\ InitClusterVars
    /\ lru = CacheNew(0, TRUE)
    /\ InitLRUVars
    /\ ring = MapNew(Replicas, "atoi")
    /\ InitRingVars
    /\ mainCache = [cacheBytes |-> 2048, lru |-> NoLru]
    /\ InitGroupVars

\* NewGroup(name, cacheBytes, getter): panics on a nil getter; otherwise builds
\* a Group and stores it under name, whatever the map held there.
RegistryNewGroup ==
    \E name \in GroupNames, getter \in Getters :
        /\ Len(created) < MaxGroups
        /\ IF getter = "nil"
           THEN /\ got' = [op |-> "NewGroup", name |-> name, g |-> 0, panic |-> TRUE]
                /\ UNCHANGED <<groups, created>>
           ELSE /\ created' = Append(created, [name |-> name, getter |-> getter])
                /\ groups' = MapPut(groups, name, Len(created) + 1)
                /\ got' = [op |-> "NewGroup", name |-> name, g |-> Len(created) + 1,
                           panic |-> FALSE]
        /\ UNCHANGED <<lruVars, ringVars, groupVars, addVars, regVars, poolVars, clusterVars>>

\* GetGroup(name): groups[name], nil when the map has no such name.
RegistryGetGroup ==
    \E name \in GroupNames :
        /\ got' = [op |-> "GetGroup", name |-> name,
                   g |-> IF name \in DOMAIN groups THEN groups[name] ELSE 0,
                   panic |-> FALSE]
        /\ UNCHANGED <<groups, created>>
        /\ UNCHANGED <<lruVars, ringVars, groupVars, addVars, regVars, poolVars, clusterVars>>

NextRegistry == RegistryNewGroup \/ RegistryGetGroup

SpecRegistry == InitRegistry /\ [][NextRegistry]_vars

\* The Groups NewGroup has created under name.
CreatedAs(name) == {i \in 1..Len(created) : created[i].name = name}

\* C17 as stated: no two distinct Groups created by NewGroup carry the same
\* name; GetGroup(name) returns the Group created under that name, and nil for
\* a name no Group was created under.
C17_NameUnique ==
    /\ \A i, j \in 1..Len(created) :
          created[i].name = created[j].name => i = j
    /\ got.op = "GetGroup" =>
          IF CreatedAs(got.name) = {}
          THEN got.g = 0
          ELSE CreatedAs(got.name) = {got.g}

\* The keys the Group's cache holds.
CachedKeys == IF mainCache.lru = NoLru THEN {} ELSE mainCache.lru.cache

\* The value the cache holds for a cached key k.
CachedValue(k) == mainCache.lru.ll[Element(mainCache.lru, k)].value

\* The Calls of getLocally for key k whose loader has run.
LoaderRuns(k) ==
    {c \in 1..Len(calls) :
        calls[c].key = k /\ calls[c].fn = "local" /\ calls[c].execs = 1}

RejectedKeys == {k \in ErrKeys : k # "" /\ GetterGet(k).err # NilErr}

\* The finished Gets of goroutine t for key k that went down path via.
GetsVia(t, k, via) ==
    {i \in 1..Len(hist[t]) : hist[t][i].key = k /\ hist[t][i].via = via}

\* C12: Get("") returns the error "key is required" and nothing is looked up,
\* loaded or cached for it; a Get of a key the loader rejects returns the
\* loader's error as it is, the key never enters the cache (no Get of it is a
\* hit), and of successive Gets of it each one invokes the loader again.
C12_ErrorsNotCached ==
    /\ \A t \in Threads : \A i \in 1..Len(hist[t]) :
          hist[t][i].key = "" =>
              /\ hist[t][i].err = "key is required"
              /\ hist[t][i].val = ""
              /\ hist[t][i].via = "none"
    /\ \A t \in Threads : th[t].pc # "idle" => th[t].key # ""
    /\ \A c \in 1..Len(calls) : calls[c].key # ""
    /\ loaderCalls[""] = 0 /\ peerCalls[""] = 0 /\ "" \notin CachedKeys
    /\ \A k \in RejectedKeys :
          /\ k \notin CachedKeys
          /\ \A t \in Threads :
                /\ GetsVia(t, k, "hit") = {}
                /\ \A i \in GetsVia(t, k, "local") :
                      /\ hist[t][i].err = GetterGet(k).err
                      /\ hist[t][i].val = ""
          /\ (Sequential /\ th[1].pc = "idle")
                => loaderCalls[k] = Cardinality(GetsVia(1, k, "local"))

\* C12 witness: Get(""), then Get("unknown") twice, one after the other: the
\* first failed on the key check, the other two each invoked the loader and
\* returned its error.
C12_Witness ==
    /\ Sequential
    /\ th[1].pc = "idle"
    /\ Len(hist[1]) = 3
    /\ hist[1][1].key = "" /\ hist[1][1].err = "key is required"
    /\ hist[1][2].key = "unknown" /\ hist[1][2].err = "unknown not exist"
    /\ hist[1][3].key = "unknown" /\ hist[1][3].err = "unknown not exist"
    /\ loaderCalls["unknown"] = 2
    /\ Len(calls) = 2

\* C20 as stated: whatever the interleaving of Gets with RegisterPeers, a Get
\* on the remote path never shares a Call the local path started, nor a Get on
\* the local path one the remote path started; what Do hands a caller is of
\* the kind its path converts (a ByteView remotely, the loader's []byte
\* locally), and no Get fails on the conversion.
C20_PathsNeverMix ==
    \A t \in Threads :
        /\ th[t].pc \in {"wait", "post"} => calls[th[t].call].fn = th[t].path
        /\ th[t].pc = "post" =>
              th[t].ret.val.type = (IF th[t].path = "remote" THEN "ByteView"
                                    ELSE "[]byte")
        /\ th[t].pc # "panic"

====
